---- MODULE Spec2Model ----
(***************************************************************************)
(* Cold Email Generator: the /api/generate pipeline (app.py), the          *)
(* LinkedIn fetchers and their validators (fetch_user_profile.py,          *)
(* fetch_company_profile.py) and the generation client                     *)
(* (generate_email.py: with_backoff, extract_output_text,                  *)
(* extract_json_from_response, generate_cold_email, run_email_generation). *)
(*                                                                         *)
(* Texts are sequences of tokens; every token stands for a fixed piece of  *)
(* a Python string:                                                        *)
(*   "<fence>"    the three-backtick fence of a markdown code block        *)
(*   "json"       the word json                                            *)
(*   " "          one whitespace character                                 *)
(*   "{"  "}"     braces                                                   *)
(*   "email:Hi"   the JSON member  "email": "Hi"                           *)
(*   "email:"     the JSON member  "email": ""                             *)
(*   "subject:S"  the JSON member  "subject": "S"                          *)
(*   "id:resp"    the JSON member  "id": "resp"                            *)
(*   "42"         the digits 42                                            *)
(*   "Hello"      a word of prose                                          *)
(***************************************************************************)
EXTENDS Integers, Sequences, FiniteSets, TLC

VARIABLES
    \* ---- /api/generate (app.py generate_email) ----
    ppc,        \* position of the request being handled ("idle": none in progress)
    body,       \* request.get_json() of the request being handled
    rid,        \* number of requests so far that passed the input validation
    url,        \* the request's url, stripped
    desc,       \* len(product_description) after strip()
    url_type,   \* detect_url_type(url)
    fetched,    \* (success, profile_path, profile_data) returned by the fetcher
    profile,    \* full_name / headline extracted for the response
    used,       \* which fetcher, validator and prompt template served the request
    sent,       \* the input handed to the text-generation service
    work,       \* the files of WORK_DIR
    response,   \* the JSON response and status returned to the caller
    other,      \* a second /api/generate request served by another thread
    \* ---- generate_cold_email / with_backoff (generate_email.py) ----
    gpc,        \* state of the single generation call
    i,          \* with_backoff: loop variable of "for i in range(max_retries)"
    calls,      \* with_backoff: number of times fn() has been invoked
    sleeps,     \* with_backoff: the arguments of time.sleep, in order
    last,       \* with_backoff: outcome of the latest fn() invocation
    resp,       \* generate_cold_email: the response object of the service
    result,     \* generate_cold_email: the value it returned
    \* ---- harness of the pure functions ----
    fn,         \* which function has been applied ("" = none yet)
    arg,        \* its argument
    ret         \* its return value

reqVars == <<ppc, body, rid, url, desc, url_type, fetched, profile, used, sent, work, response, other>>
genVars == <<gpc, i, calls, sleeps, last, resp, result>>
fnVars == <<fn, arg, ret>>
vars == <<reqVars, genVars, fnVars>>

-----------------------------------------------------------------------------
(* Bounds of the model *)

\* longest response text (in tokens) the extraction harness enumerates
MaxLen == 5

\* longest identifier (in tokens) of the URLs the classifier harness enumerates
MaxIdLen == 2

\* how many requests that pass the input validation one behaviour holds
MaxRequests == 2

-----------------------------------------------------------------------------
(* generate_email.py: with_backoff *)

max_retries == 6
base == 2

RECURSIVE Pow(_, _)
Pow(b, n) == IF n = 0 THEN 1 ELSE b * Pow(b, n - 1)

\* "sleep = base ** i" (both except clauses)
BackoffSleepBug(k) == Pow(base, k + 1)
BackoffSleep(k) == Pow(base, k)

\* "if status in (429, 500, 502, 503, 504)"
RetryableStatus == {429, 500, 502, 503, 504}

\* What one invocation of fn() can do: return a response, raise RateLimitError,
\* raise another APIStatusError (status_code, 0 when the attribute is missing),
\* or raise an error of another class.
OtherStatus == {0, 400, 401}
ErrorOutcomes ==
    {[kind |-> "RateLimitError", status |-> 429]}
    \cup {[kind |-> "APIStatusError", status |-> s] : s \in RetryableStatus \cup OtherStatus}
    \cup {[kind |-> "APIConnectionError", status |-> 0]}
NoOutcome == [kind |-> "none", status |-> 0]
Ok == [kind |-> "ok", status |-> 200]

\* the except clauses of with_backoff: does this error lead to sleep-and-retry?
IsRetriedBug(o) == o.kind \in {"RateLimitError", "APIStatusError"}
IsRetried(o) ==
    \/ o.kind = "RateLimitError"
    \/ o.kind = "APIStatusError" /\ o.status \in RetryableStatus

-----------------------------------------------------------------------------
(* generate_email.py: text helpers, json.loads and extract_json_from_response *)

FENCE == "<fence>"
LABEL == "json"
WS == " "
Members == {"email:Hi", "email:", "subject:S", "id:resp"}

RECURSIVE lstrip(_)
lstrip(s) == IF s # <<>> /\ Head(s) = WS THEN lstrip(Tail(s)) ELSE s

RECURSIVE rstrip(_)
rstrip(s) ==
    IF s # <<>> /\ s[Len(s)] = WS THEN rstrip(SubSeq(s, 1, Len(s) - 1)) ELSE s

\* str.strip()
strip(s) == rstrip(lstrip(s))

\* str.find / str.rfind of a one-token needle: 0-based index, -1 when absent
find(s, tok, from) ==
    LET hits == {k \in from .. Len(s) - 1 : s[k + 1] = tok}
    IN IF hits = {} THEN -1 ELSE CHOOSE k \in hits : \A j \in hits : k <= j

rfind(s, tok) ==
    LET hits == {k \in 0 .. Len(s) - 1 : s[k + 1] = tok}
    IN IF hits = {} THEN -1 ELSE CHOOSE k \in hits : \A j \in hits : k >= j

\* s[a:b] with 0 <= a
slice(s, a, b) == SubSeq(s, a + 1, b)

\* Parsed JSON values. A dict is its key set, with the value of "email" and of
\* "_raw" kept as texts (the other values are never read).
JDict(keys, email, raw) == [type |-> "dict", keys |-> keys, email |-> email, raw |-> raw]
JInt == [type |-> "int", keys |-> {}, email |-> <<>>, raw |-> <<>>]
JNone == [type |-> "NoneType", keys |-> {}, email |-> <<>>, raw |-> <<>>]

MemberDict(m) ==
    CASE m = "email:Hi" -> JDict({"email"}, <<"Hi">>, <<>>)
      [] m = "email:" -> JDict({"email"}, <<>>, <<>>)
      [] m = "subject:S" -> JDict({"subject"}, <<>>, <<>>)
      [] OTHER -> JDict({"id"}, <<>>, <<>>)

\* json.loads: [ok |-> FALSE] stands for JSONDecodeError. Whitespace around the
\* document and inside the braces is skipped; members are not separated by commas
\* here, so an object holds at most one member; a run of digits is a number.
json_loads(s) ==
    LET doc == strip(s)
        n == Len(doc)
        inner == IF n >= 2 THEN strip(SubSeq(doc, 2, n - 1)) ELSE <<>>
    IN IF n >= 2 /\ doc[1] = "{" /\ doc[n] = "}"
       THEN IF inner = <<>> THEN [ok |-> TRUE, val |-> JDict({}, <<>>, <<>>)]
            ELSE IF Len(inner) = 1 /\ inner[1] \in Members
                 THEN [ok |-> TRUE, val |-> MemberDict(inner[1])]
                 ELSE [ok |-> FALSE, val |-> JNone]
       ELSE IF n >= 1 /\ \A k \in 1 .. n : doc[k] = "42" THEN [ok |-> TRUE, val |-> JInt]
       ELSE [ok |-> FALSE, val |-> JNone]

RECURSIVE skip_ws(_, _)
skip_ws(s, p) == IF p < Len(s) /\ s[p + 1] = WS THEN skip_ws(s, p + 1) ELSE p

\* re.findall(code_block_pattern, text) from 0-based position p:
\* the opening fence, the optional label and the whitespace are consumed
\* greedily, the group lazily up to the next fence; matches do not overlap.
RECURSIVE findall(_, _)
findall(text, p) ==
    LET a == find(text, FENCE, p)
        q1 == IF a + 1 < Len(text) /\ text[a + 2] = LABEL THEN a + 2 ELSE a + 1
        q == skip_ws(text, q1)
        b == find(text, FENCE, q)
    IN IF a = -1 \/ b = -1 THEN <<>>
       ELSE <<slice(text, q, b)>> \o findall(text, b + 1)

ParseError(text) == JDict({"_parse_error", "_raw"}, <<>>, text)

\* the third attempt: text[start:end] from the first "{" to the last "}"
BraceAttempt(text) ==
    LET start == find(text, "{", 0)
        end == rfind(text, "}") + 1
    IN IF start # -1 /\ end > start
       THEN json_loads(slice(text, start, end))
       ELSE [ok |-> FALSE, val |-> JNone]

\* the first attempt: the first fenced block whose stripped content parses
BlockAttempt(text) ==
    LET matches == findall(text, 0)
        good == {k \in 1 .. Len(matches) : json_loads(strip(matches[k])).ok}
    IN IF good = {} THEN [ok |-> FALSE, val |-> JNone]
       ELSE json_loads(strip(matches[CHOOSE k \in good : \A j \in good : k <= j]))

extract_json_from_response_bug(text) ==
    IF json_loads(text).ok THEN json_loads(text).val
    ELSE IF BraceAttempt(text).ok THEN BraceAttempt(text).val
    ELSE IF BlockAttempt(text).ok THEN BlockAttempt(text).val
    ELSE ParseError(text)
extract_json_from_response(text) ==
    IF BlockAttempt(text).ok THEN BlockAttempt(text).val
    ELSE IF json_loads(text).ok THEN json_loads(text).val
    ELSE IF BraceAttempt(text).ok THEN BraceAttempt(text).val
    ELSE ParseError(text)

-----------------------------------------------------------------------------
(* app.py: detect_url_type; fetch_*_profile.py: validate_linkedin_*_url       *)
(*                                                                         *)
(* A URL is a sequence of tokens, each a fixed piece of the string:        *)
(* "http" "s" "ftp" "://" "www." "linkedin.com" "evil.com" "/in/"          *)
(* "/company/" "/jobs/" "/" "a" "-" "?" and " " (whitespace).              *)

\* tokens all of whose characters are in [\w\-]
WordToks == {"a", "-", "http", "s", "ftp"}

RECURSIVE skip_word(_, _)
skip_word(s, p) == IF p < Len(s) /\ s[p + 1] \in WordToks THEN skip_word(s, p + 1) ELSE p

At(s, p, tok) == p < Len(s) /\ s[p + 1] = tok

\* re.match(r'^https?://(www\.)?linkedin\.com<seg>[\w\-]+/?$', s)
re_match_linkedin_bug(s, seg) ==
    LET p1 == IF At(s, 1, "s") THEN 2 ELSE 1
        p3 == IF At(s, p1 + 1, "www.") THEN p1 + 2 ELSE p1 + 1
    IN /\ At(s, 0, "http")
       /\ At(s, p1, "://")
       /\ At(s, p3, "linkedin.com")
       /\ At(s, p3 + 1, seg)
       /\ skip_word(s, p3 + 2) > p3 + 2
re_match_linkedin(s, seg) ==
    LET p1 == IF At(s, 1, "s") THEN 2 ELSE 1
        p2 == p1 + 1
        p3 == IF At(s, p2, "www.") THEN p2 + 1 ELSE p2
        p4 == p3 + 1
        p5 == p4 + 1
        p6 == skip_word(s, p5)
        p7 == IF At(s, p6, "/") THEN p6 + 1 ELSE p6
    IN /\ At(s, 0, "http")
       /\ At(s, p1, "://")
       /\ At(s, p3, "linkedin.com")
       /\ At(s, p4, seg)
       /\ p6 > p5
       /\ p7 = Len(s)

user_pattern(s) == re_match_linkedin(s, "/in/")
company_pattern(s) == re_match_linkedin(s, "/company/")

\* app.py detect_url_type: 'user', 'company' or None
detect_url_type(u) ==
    IF u = <<>> THEN "None"
    ELSE IF user_pattern(strip(u)) THEN "user"
    ELSE IF company_pattern(strip(u)) THEN "company"
    ELSE "None"

validate_linkedin_profile_url(u) == u # <<>> /\ user_pattern(strip(u))
validate_linkedin_company_url(u) == u # <<>> /\ company_pattern(strip(u))

-----------------------------------------------------------------------------
(* fetch_user_profile.py / fetch_company_profile.py: the validators         *)
(*                                                                         *)
(* A record is the dict the source returned. Each field holds ABSENT (the  *)
(* key is missing), NULL (JSON null), NUM (a JSON number) or a string.      *)
(* size is len(str(record)).                                               *)

ABSENT == "<absent>"
NULL == "<null>"
NUM == "<404>"
PLAN == "Upgrade: not available on the free Apify plan"
PAID == "requires paid plan"

MIN_SIZE == 100

\* Python truthiness of dict.get(key): None (missing key or null) and "" are
\* falsy; a non-empty string and the number 404 are truthy
Truthy(v) == v \notin {ABSENT, NULL, ""}

IsStr(v) == v \notin {ABSENT, NULL, NUM}

\* "free Apify plan" in error_msg, for a string error_msg
HasFreePlanText(v) == v = PLAN

NoRecord ==
    [error |-> ABSENT, fullName |-> ABSENT, firstName |-> ABSENT, headline |-> ABSENT,
     basic_info |-> FALSE, bi_fullname |-> ABSENT, bi_first_name |-> ABSENT,
     bi_headline |-> ABSENT, bi_name |-> ABSENT, bi_industries |-> ABSENT,
     bi_description |-> ABSENT, size |-> 2]

\* the payload handed to a validator: None, a dict, or a list ([] or [dict])
NonePayload == [wrap |-> "None", rec |-> NoRecord]
EmptyList == [wrap |-> "list0", rec |-> NoRecord]
AsDict(r) == [wrap |-> "dict", rec |-> r]
AsList(r) == [wrap |-> "list", rec |-> r]

\* "if not profile_data": None, {} and [] are falsy
Falsy(p) == p.wrap \in {"None", "list0"} \/ (p.wrap = "dict" /\ p.rec.size = 2)

Valid == [valid |-> TRUE, raised |-> FALSE, msg |-> "None"]
Invalid(m) == [valid |-> FALSE, raised |-> FALSE, msg |-> m]
TypeError == [valid |-> FALSE, raised |-> TRUE, msg |-> "TypeError"]

\* the messages of the "free Apify plan" branch
ProfilePlanMessage ==
    "Unable to fetch profile. This feature requires a paid Apify subscription."
CompanyPlanMessage ==
    "Unable to fetch company. This feature requires a paid Apify subscription."

\* "if 'error' in data: ..." of both validators, given the plan message
error_branch_bug(r, planMsg) == IF ~IsStr(r.error) THEN TypeError ELSE Invalid(planMsg)
error_branch(r, planMsg) ==
    IF ~IsStr(r.error) THEN TypeError
    ELSE IF HasFreePlanText(r.error) THEN Invalid(planMsg)
    ELSE Invalid(r.error)

validate_profile_data(p) ==
    IF Falsy(p) THEN Invalid("No profile data received")
    ELSE LET r == p.rec
             fullname == IF r.basic_info
                         THEN (IF Truthy(r.bi_fullname) THEN r.bi_fullname ELSE r.bi_first_name)
                         ELSE (IF Truthy(r.fullName) THEN r.fullName ELSE r.firstName)
             headline == IF r.basic_info THEN r.bi_headline ELSE r.headline
         IN IF r.error # ABSENT
            THEN error_branch(r, ProfilePlanMessage)
            ELSE IF ~Truthy(fullname) THEN Invalid("Missing name information")
            ELSE IF ~Truthy(headline) THEN Invalid("Missing headline information")
            ELSE IF r.size < MIN_SIZE THEN Invalid("Profile data appears incomplete")
            ELSE Valid

validate_company_data(p) ==
    IF Falsy(p) THEN Invalid("No company data received")
    ELSE LET r == p.rec
             company_name == IF r.basic_info THEN r.bi_name ELSE ABSENT
         IN IF r.error # ABSENT
            THEN error_branch(r, CompanyPlanMessage)
            ELSE IF ~Truthy(company_name) THEN Invalid("Missing company name")
            ELSE IF r.size < MIN_SIZE THEN Invalid("Company data appears incomplete")
            ELSE Valid

-----------------------------------------------------------------------------
(* The source (Apify actor) and the fetchers                               *)

Rec(over) == [f \in DOMAIN NoRecord |-> IF f \in DOMAIN over THEN over[f] ELSE NoRecord[f]]

JaneFlat == Rec([fullName |-> "Jane Doe", headline |-> "Engineer", size |-> MIN_SIZE])
JaneNested == Rec([basic_info |-> TRUE, bi_fullname |-> "Jane Doe",
                   bi_headline |-> "Engineer", size |-> MIN_SIZE])
JaneSmall == Rec([fullName |-> "Jane Doe", headline |-> "Engineer", size |-> MIN_SIZE - 1])
JaneNumHeadline == Rec([fullName |-> "Jane Doe", headline |-> NUM, size |-> MIN_SIZE])
OnlyHeadline == Rec([headline |-> "Engineer", size |-> MIN_SIZE])
Acme == Rec([basic_info |-> TRUE, bi_name |-> "Acme", bi_industries |-> "[Tech]",
             size |-> MIN_SIZE])
AcmeNullDescription == Rec([basic_info |-> TRUE, bi_name |-> "Acme",
                            bi_description |-> NULL, size |-> MIN_SIZE])
ErrPaid == Rec([error |-> PAID, fullName |-> "Jane Doe", headline |-> "Engineer",
                basic_info |-> TRUE, bi_name |-> "Acme", size |-> MIN_SIZE])
ErrNull == Rec([error |-> NULL, fullName |-> "Jane Doe", headline |-> "Engineer",
                basic_info |-> TRUE, bi_name |-> "Acme", size |-> MIN_SIZE])

\* the record {"error": "requires paid plan"}: len(str(record)) = 31
PaidPlanOnly == Rec([error |-> PAID, size |-> 31])

\* what the source can return as items[0]
SourceItems ==
    {AsDict(r) : r \in {JaneFlat, JaneNested, JaneSmall, JaneNumHeadline, OnlyHeadline,
                        Acme, AcmeNullDescription, ErrPaid, ErrNull, PaidPlanOnly}}
    \cup {AsList(JaneNested), AsList(Acme), EmptyList}

\* the ways a fetch can end without an item
FetchFailures == {"no_token", "exception", "no_dataset", "no_items"}

\* what one run of the actor ends in
FetchOutcomes ==
    {[kind |-> k, item |-> NonePayload] : k \in FetchFailures}
    \cup {[kind |-> "item", item |-> p] : p \in SourceItems}

\* json.dump({"error": str(e)}, f) of the except clause
ErrorFile == AsDict(Rec([error |-> "actor failed", size |-> 25]))

\* A file of WORK_DIR: whether it exists and what it holds. req is not part of
\* the file: it records which request wrote it (the value of rid at that time;
\* 0 for a write of the request of the other thread).
NoFile == [exists |-> FALSE, data |-> NonePayload, req |-> 0]
FileOf(p) == [exists |-> TRUE, data |-> p, req |-> 0]
NoResultFile == [exists |-> FALSE, data |-> JNone, req |-> 0]
WrittenBy(f, r) == [f EXCEPT !.req = r]

\* fetch_linkedin_profile / fetch_linkedin_company(url, WORK_DIR, filename), given
\* whether its own URL check accepts and what the source does;
\* write is the file it leaves under that filename
fetch_linkedin(urlOk, filename, o) ==
    IF ~urlOk THEN [success |-> FALSE, path |-> "None", data |-> NonePayload, write |-> NoFile]
    ELSE IF o.kind \in {"no_token", "no_dataset", "no_items"}
    THEN [success |-> FALSE, path |-> "None", data |-> NonePayload, write |-> NoFile]
    ELSE IF o.kind = "exception"
    THEN [success |-> FALSE, path |-> "None", data |-> NonePayload, write |-> FileOf(ErrorFile)]
    ELSE [success |-> TRUE, path |-> filename, data |-> o.item, write |-> FileOf(o.item)]

fetch_linkedin_profile(u, o) ==
    fetch_linkedin(validate_linkedin_profile_url(u), "profile", o)
fetch_linkedin_company(u, o) ==
    fetch_linkedin(validate_linkedin_company_url(u), "company", o)

-----------------------------------------------------------------------------
(* app.py: the /api/generate handler                                       *)

MAX_DESC == 200

\* dict.get(key, default)
Get(v, default) == IF v = ABSENT THEN default ELSE v

\* The response: the fields success, step, email and error of the JSON body and
\* the HTTP status. The fixed error texts of app.py are not told apart; the text
\* of a data validation failure is the validator's message.
Resp(ok, step, status, email) ==
    [success |-> ok, step |-> step, status |-> status, email |-> email, error |-> "None"]
NoResponse == Resp(FALSE, "pending", 0, <<>>)
FailureMsg(step, status, msg) == [Resp(FALSE, step, status, <<>>) EXCEPT !.error = msg]
Failure(step, status) == FailureMsg(step, status, "fixed text")

\* An exception that leaves generate_email: there is no JSON body; Flask answers
\* with its own 500 page.
Unhandled ==
    [success |-> FALSE, step |-> "<no json>", status |-> 500, email |-> <<>>,
     error |-> "Internal Server Error"]

NoFetch == [success |-> FALSE, path |-> "None", data |-> NonePayload]
NoProfile == [raised |-> FALSE, name |-> ABSENT, headline |-> ABSENT]
NoUse == [fetcher |-> "none", validator |-> "none", template |-> "none"]
NoSent == [template |-> "none", data |-> NoRecord, desc |-> 0]
NoWork == [profile |-> NoFile, company |-> NoFile, result |-> NoResultFile]

Files == {"profile", "company", "result"}

\* which deletions raise in one run of clear_work_directory (os.unlink fails;
\* the except clause prints the error and the loop goes on)
DeleteFailures == {{}, {"result"}}

\* clear_work_directory(): every file of w is deleted but those in keep
clear_work_directory(w, keep) ==
    [f \in Files |-> IF f \in keep /\ w[f].exists THEN w[f] ELSE NoWork[f]]

\* "Extract basic info for response" of the two branches
AppProfile(type, r) ==
    IF type = "user"
    THEN [raised |-> FALSE,
          name |-> IF r.basic_info THEN Get(r.bi_fullname, "Unknown") ELSE Get(r.fullName, "Unknown"),
          headline |-> IF r.basic_info THEN Get(r.bi_headline, "") ELSE Get(r.headline, "")]
    ELSE IF Get(r.bi_industries, "[]") # "[]"
    THEN [raised |-> FALSE, name |-> Get(r.bi_name, "Unknown Company"), headline |-> "Tech"]
    ELSE [raised |-> ~IsStr(Get(r.bi_description, "")),
          name |-> Get(r.bi_name, "Unknown Company"),
          headline |-> Get(r.bi_description, "")]

\* "if not is_valid" of the handler: does the pipeline go on to generation?
AcceptedBug(v) == TRUE
Accepted(v) == v.valid

\* which validator the branch of url_type calls
ValidatorOf(type) == IF type = "user" THEN "validate_profile_data" ELSE "validate_company_data"

RunValidator(name, p) ==
    IF name = "validate_profile_data" THEN validate_profile_data(p) ELSE validate_company_data(p)

ResetGen ==
    /\ gpc' = "Idle"
    /\ i' = 0
    /\ calls' = 0
    /\ sleeps' = <<>>
    /\ last' = NoOutcome
    /\ resp' = [output_text |-> <<>>, content |-> <<>>]
    /\ result' = JNone

\* The JSON body of a request: an object whose url and product_description are
\* each a string, a value of another type ("other": a number, null) or missing;
\* or a body that is no object (null). A description is raw characters long,
\* ws of them whitespace at its ends.
ObjectBody(uk, u, dk, raw, ws) ==
    [kind |-> "object", url_kind |-> uk, url |-> u, desc_kind |-> dk, raw |-> raw, ws |-> ws]
NullBody == [ObjectBody("absent", <<>>, "absent", 0, 0) EXCEPT !.kind = "null"]
NoBody == [ObjectBody("absent", <<>>, "absent", 0, 0) EXCEPT !.kind = "none"]

\* lines 136-138: data.get(...) raises AttributeError when data is no dict, and
\* .strip() when the value is no string
BodyFault(b) == b.kind # "object" \/ b.url_kind = "other" \/ b.desc_kind = "other"

\* data.get('url', '').strip()
BodyUrl(b) == strip(b.url)

\* len(data.get('product_description', '').strip())
BodyDesc(b) == b.raw - b.ws

\* lines 141-162: the three checks that answer 400 "validation"
InputRejected(type, d) == type = "None" \/ d = 0 \/ d > MAX_DESC

\* line 166: the directory is cleared once the inputs are accepted
ClearOnReceiveBug(w, rejected, keep) == clear_work_directory(w, keep)
ClearOnReceive(w, rejected, keep) == IF rejected THEN w ELSE clear_work_directory(w, keep)

\* lines 136-166: read the body, validate the inputs, clear the directory
Receive(b, keep) ==
    /\ ppc = "idle"
    /\ rid < MaxRequests
    /\ body' = b
    /\ fetched' = NoFetch
    /\ profile' = NoProfile
    /\ used' = NoUse
    /\ sent' = NoSent
    /\ ResetGen
    /\ IF BodyFault(b)
       THEN /\ url' = <<>>
            /\ desc' = 0
            /\ url_type' = "None"
            /\ response' = Unhandled
            /\ UNCHANGED <<ppc, work, rid>>
       ELSE /\ url' = BodyUrl(b)
            /\ desc' = BodyDesc(b)
            /\ url_type' = detect_url_type(BodyUrl(b))
            /\ work' = ClearOnReceive(work, InputRejected(url_type', desc'), keep)
            /\ IF InputRejected(url_type', desc')
               THEN /\ response' = Failure("validation", 400)
                    /\ UNCHANGED <<ppc, rid>>
               ELSE /\ ppc' = "fetch"
                    /\ rid' = rid + 1
                    /\ response' = NoResponse
    /\ UNCHANGED other
    /\ UNCHANGED fnVars

\* lines 168-248: fetch, validate the data, extract name and headline
Fetch(o) ==
    /\ ppc = "fetch"
    /\ LET f == IF url_type = "user" THEN fetch_linkedin_profile(url, o)
                ELSE fetch_linkedin_company(url, o)
           file == IF url_type = "user" THEN "profile" ELSE "company"
           vname == ValidatorOf(url_type)
           v == RunValidator(vname, f.data)
           info == AppProfile(url_type, f.data.rec)
       IN /\ fetched' = [success |-> f.success, path |-> f.path, data |-> f.data]
          /\ work' = IF f.write.exists
                     THEN [work EXCEPT ![file] = WrittenBy(f.write, rid)] ELSE work
          /\ used' = [used EXCEPT
                        !.fetcher = IF url_type = "user" THEN "fetch_linkedin_profile"
                                    ELSE "fetch_linkedin_company",
                        !.validator = IF f.success THEN vname ELSE "none"]
          /\ IF ~f.success
             THEN /\ response' = Failure("fetch", 500)
                  /\ ppc' = "idle"
                  /\ profile' = profile
             ELSE IF v.raised
             THEN /\ response' = Failure("unknown", 500)
                  /\ ppc' = "idle"
                  /\ profile' = profile
             ELSE IF ~Accepted(v)
             THEN /\ response' = FailureMsg("validation", 400, v.msg)
                  /\ ppc' = "idle"
                  /\ profile' = profile
             ELSE IF info.raised
             THEN /\ response' = Failure("unknown", 500)
                  /\ ppc' = "idle"
                  /\ profile' = profile
             ELSE /\ response' = response
                  /\ ppc' = "generate"
                  /\ profile' = info
    /\ UNCHANGED <<body, rid, url, desc, url_type, sent, other>>
    /\ UNCHANGED genVars
    /\ UNCHANGED fnVars

-----------------------------------------------------------------------------
(* generate_email.py: run_email_generation and generate_cold_email         *)

\* "prompt1.md" if profile_type == "user" else "prompt2.md"
PromptFileBug(type) == "prompt1.md"
PromptFile(type) == IF type = "user" THEN "prompt1.md" ELSE "prompt2.md"

\* "Display profile info": len(headline) raises TypeError unless headline is a string
DisplayRaises(type, r) ==
    IF type = "company" THEN FALSE
    ELSE ~IsStr(IF r.basic_info THEN Get(r.bi_headline, "N/A") ELSE Get(r.headline, "N/A"))

\* the environment of one run: the API key or the prompt file may be missing
Environments == {"ok", "no_api_key", "no_prompt"}

\* run_email_generation, steps 1-3 and the display (lines 192-255): returns None
\* (reported as a generation failure), raises, or goes on to generate_cold_email
RunSetup(env) ==
    /\ ppc = "generate"
    /\ LET f == work[fetched.path]
           template == PromptFile(url_type)
       IN /\ used' = [used EXCEPT !.template = IF env = "no_api_key" THEN "none" ELSE template]
          /\ IF env # "ok" \/ ~f.exists \/ f.data.wrap = "list0"
             THEN /\ response' = Failure("generation", 500)
                  /\ ppc' = "idle"
                  /\ sent' = sent
             ELSE IF DisplayRaises(url_type, f.data.rec)
             THEN /\ response' = Failure("unknown", 500)
                  /\ ppc' = "idle"
                  /\ sent' = sent
             ELSE /\ response' = response
                  /\ ppc' = "calling"
                  /\ sent' = [template |-> template, data |-> f.data.rec, desc |-> desc]
    /\ UNCHANGED <<body, rid, url, desc, url_type, fetched, profile, work, other>>
    /\ UNCHANGED genVars
    /\ UNCHANGED fnVars

\* generate_cold_email lines 142-160: the combined input is built
BuildRequest ==
    /\ ppc = "calling"
    /\ gpc = "Idle"
    /\ gpc' = "RequestBuilt"
    /\ UNCHANGED <<i, calls, sleeps, last, resp, result>>
    /\ UNCHANGED reqVars
    /\ UNCHANGED fnVars

\* "for i in range(max_retries)": is there an iteration for this value of i?
InRangeBug(k) == k <= max_retries
InRange(k) == k < max_retries

\* a fault leaves generate_email through its except clause (lines 291-299)
Propagate ==
    /\ response' = Failure("unknown", 500)
    /\ ppc' = "idle"
    /\ UNCHANGED <<body, rid, url, desc, url_type, fetched, profile, used, sent, work, other>>

\* with_backoff: the first iteration invokes fn()
Send ==
    /\ ppc = "calling"
    /\ gpc = "RequestBuilt"
    /\ i' = 0
    /\ IF InRange(0)
       THEN /\ calls' = calls + 1
            /\ gpc' = "Sent"
            /\ UNCHANGED reqVars
       ELSE /\ calls' = calls
            /\ gpc' = "RetriesExhausted"
            /\ Propagate
    /\ UNCHANGED <<sleeps, last, resp, result>>
    /\ UNCHANGED fnVars

\* with_backoff: fn() returns the response
RespondOk(r) ==
    /\ ppc = "calling"
    /\ gpc = "Sent"
    /\ last' = Ok
    /\ resp' = r
    /\ gpc' = "ResponseReceived"
    /\ UNCHANGED <<i, calls, sleeps, result>>
    /\ UNCHANGED reqVars
    /\ UNCHANGED fnVars

\* with_backoff: fn() raises; the except clauses sleep, or the error propagates
RespondError(o) ==
    /\ ppc = "calling"
    /\ gpc = "Sent"
    /\ last' = o
    /\ IF IsRetried(o)
       THEN /\ sleeps' = Append(sleeps, BackoffSleep(i))
            /\ gpc' = "RetryWait"
            /\ UNCHANGED reqVars
       ELSE /\ sleeps' = sleeps
            /\ gpc' = "Raised"
            /\ Propagate
    /\ UNCHANGED <<i, calls, resp, result>>
    /\ UNCHANGED fnVars

\* with_backoff: time.sleep returns; the next iteration invokes fn(), or the loop
\* is over and RuntimeError("Exceeded retry attempts") is raised
Wake ==
    /\ ppc = "calling"
    /\ gpc = "RetryWait"
    /\ i' = i + 1
    /\ IF InRange(i + 1)
       THEN /\ calls' = calls + 1
            /\ gpc' = "Sent"
            /\ UNCHANGED reqVars
       ELSE /\ calls' = calls
            /\ gpc' = "RetriesExhausted"
            /\ Propagate
    /\ UNCHANGED <<sleeps, last, resp, result>>
    /\ UNCHANGED fnVars

\* resp.model_dump_json(): the response object as JSON text
DumpJson == <<"{", "id:resp", "}">>

RECURSIVE join(_)
join(chunks) ==
    IF chunks = <<>> THEN <<>>
    ELSE IF Len(chunks) = 1 THEN chunks[1]
    ELSE chunks[1] \o <<WS>> \o join(Tail(chunks))

\* extract_output_text: output_text, else the texts of the output items joined,
\* else the raw JSON of the response
extract_output_text(r) ==
    LET chunks == SelectSeq(r.content, LAMBDA t : t # <<>>)
    IN IF r.output_text # <<>> THEN r.output_text
       ELSE IF chunks # <<>> THEN join(chunks)
       ELSE DumpJson

\* generate_cold_email lines 162-168
Extract ==
    /\ ppc = "calling"
    /\ gpc = "ResponseReceived"
    /\ result' = extract_json_from_response(extract_output_text(resp))
    /\ gpc' = IF "_parse_error" \in result'.keys THEN "ParseFailed" ELSE "Parsed"
    /\ UNCHANGED <<i, calls, sleeps, last, resp>>
    /\ UNCHANGED reqVars
    /\ UNCHANGED fnVars

\* run_email_generation lines 266-273: "Check for parse errors"
ParseFallbackBug(r) == r
ParseFallback(r) ==
    IF "_parse_error" \in r.keys /\ r.raw # <<>> THEN JDict({"email"}, r.raw, <<>>) ELSE r

\* dict.get('email', '')
EmailOf(r) == IF "email" \in r.keys THEN r.email ELSE <<>>

\* run_email_generation lines 266-296 and generate_email lines 257-289
Finish ==
    /\ ppc = "calling"
    /\ gpc \in {"Parsed", "ParseFailed"}
    /\ IF result.type # "dict"
       THEN /\ Propagate
            /\ result' = result
       ELSE /\ result' = ParseFallback(result)
            /\ work' = [work EXCEPT !.result = [exists |-> TRUE, data |-> result', req |-> rid]]
            /\ response' = IF result'.keys = {} \/ EmailOf(result') = <<>>
                           THEN Failure("generation", 500)
                           ELSE Resp(TRUE, "none", 200, EmailOf(result'))
            /\ ppc' = "idle"
            /\ UNCHANGED <<body, rid, url, desc, url_type, fetched, profile, used, sent, other>>
    /\ UNCHANGED <<gpc, i, calls, sleeps, last, resp>>
    /\ UNCHANGED fnVars

\* app.py get_result: 404 without a result file, else the file's content
get_result(w) ==
    IF ~w.result.exists THEN [status |-> 404, data |-> JNone]
    ELSE [status |-> 200, data |-> w.result.data]

-----------------------------------------------------------------------------
(* app.py: a second request, served by another thread of the Flask server  *)
(* (app.run serves each request in a thread of its own). It runs the same  *)
(* handler on the same WORK_DIR and the same file names; only what it does  *)
(* to the directory is kept.                                               *)

\* what the source returns to the second request
OtherOutcomes ==
    {[kind |-> "exception", item |-> NonePayload],
     [kind |-> "item", item |-> AsList(JaneNested)],
     [kind |-> "item", item |-> AsDict(Acme)]}

\* lines 136-166 for a request that passes the input validation
OtherReceive(type, keep) ==
    /\ other.pc = "idle"
    /\ work' = clear_work_directory(work, keep)
    /\ other' = [pc |-> "fetch", type |-> type]
    /\ UNCHANGED <<ppc, body, rid, url, desc, url_type, fetched, profile, used, sent, response>>
    /\ UNCHANGED genVars
    /\ UNCHANGED fnVars

\* lines 168-248: the fetcher writes its file; the request goes on to the
\* generation when the data is accepted
OtherFetch(o) ==
    /\ other.pc = "fetch"
    /\ LET file == IF other.type = "user" THEN "profile" ELSE "company"
           f == fetch_linkedin(TRUE, file, o)
           v == RunValidator(ValidatorOf(other.type), f.data)
           goes == /\ f.success
                   /\ ~v.raised
                   /\ Accepted(v)
                   /\ ~AppProfile(other.type, f.data.rec).raised
       IN /\ work' = IF f.write.exists THEN [work EXCEPT ![file] = f.write] ELSE work
          /\ other' = [other EXCEPT !.pc = IF goes THEN "generate" ELSE "idle"]
    /\ UNCHANGED <<ppc, body, rid, url, desc, url_type, fetched, profile, used, sent, response>>
    /\ UNCHANGED genVars
    /\ UNCHANGED fnVars

\* lines 250-289: run_email_generation reads the entity file and, when the
\* service answered, writes the result file
OtherGenerate(answered) ==
    /\ other.pc = "generate"
    /\ LET file == work[IF other.type = "user" THEN "profile" ELSE "company"]
           written == answered /\ file.exists /\ file.data.wrap # "list0"
                        /\ ~DisplayRaises(other.type, file.data.rec)
       IN work' = IF written
                  THEN [work EXCEPT !.result =
                          [exists |-> TRUE, data |-> JDict({"email"}, <<"Hi">>, <<>>), req |-> 0]]
                  ELSE work
    /\ other' = [other EXCEPT !.pc = "idle"]
    /\ UNCHANGED <<ppc, body, rid, url, desc, url_type, fetched, profile, used, sent, response>>
    /\ UNCHANGED genVars
    /\ UNCHANGED fnVars

-----------------------------------------------------------------------------
(* The requests and the service *)

UserUrl == <<"http", "s", "://", "www.", "linkedin.com", "/in/", "a", "-", "a", "/">>
CompanyUrl == <<"http", "s", "://", "linkedin.com", "/company/", "a">>
JobsUrl == <<"http", "s", "://", "linkedin.com", "/jobs/", "a">>
RequestUrls == {UserUrl, <<WS>> \o CompanyUrl \o <<WS>>, JobsUrl, <<>>}

\* descriptions: (raw length, whitespace at the ends)
Descriptions == {<<0, 0>>, <<1, 1>>, <<1, 0>>, <<MAX_DESC, 0>>, <<MAX_DESC + 1, 0>>,
                 <<MAX_DESC + 1, 1>>}

RequestBodies ==
    {ObjectBody("str", u, "str", d[1], d[2]) :
        u \in {UserUrl, <<WS>> \o CompanyUrl \o <<WS>>}, d \in Descriptions}
    \cup {ObjectBody("str", u, "str", 1, 0) : u \in RequestUrls}
    \cup {ObjectBody("str", UserUrl, "absent", 0, 0),
          ObjectBody("absent", <<>>, "str", 1, 0),
          ObjectBody("other", <<>>, "str", 0, 0),
          ObjectBody("str", CompanyUrl, "other", 0, 0),
          NullBody}

FencedEmail == <<FENCE, LABEL, WS, "{", "email:Hi", "}", WS, FENCE>>
SampleTexts ==
    {FencedEmail, <<"{", "email:Hi", "}">>, <<"Hello", "{", "email:Hi", "}", "Hello">>,
     <<"Hello">>, <<WS>>, <<"{", "subject:S", "}">>, <<"{", "email:", "}">>,
     <<"{", "}">>, <<"42">>}

Responses ==
    {[output_text |-> t, content |-> <<>>] : t \in SampleTexts}
    \cup {[output_text |-> <<>>, content |-> c] :
            c \in {<<>>, << <<"Hello">> >>, << <<>>, <<"Hello">>, <<"Hello">> >>}}

OtherOff == [pc |-> "off", type |-> "None"]

ReqInit ==
    /\ ppc = "idle"
    /\ body = NoBody
    /\ rid = 0
    /\ other = OtherOff
    /\ url = <<>>
    /\ desc = 0
    /\ url_type = "None"
    /\ fetched = NoFetch
    /\ profile = NoProfile
    /\ used = NoUse
    /\ sent = NoSent
    /\ work = NoWork
    /\ response = NoResponse

GenInit ==
    /\ gpc = "Idle"
    /\ i = 0
    /\ calls = 0
    /\ sleeps = <<>>
    /\ last = NoOutcome
    /\ resp = [output_text |-> <<>>, content |-> <<>>]
    /\ result = JNone

FnInit ==
    /\ fn = ""
    /\ arg = <<>>
    /\ ret = JNone

Init == ReqInit /\ GenInit /\ FnInit

Next ==
    \/ \E b \in RequestBodies, keep \in DeleteFailures : Receive(b, keep)
    \/ \E o \in FetchOutcomes : Fetch(o)
    \/ \E env \in Environments : RunSetup(env)
    \/ BuildRequest
    \/ Send
    \/ \E r \in Responses : RespondOk(r)
    \/ \E o \in ErrorOutcomes : RespondError(o)
    \/ Wake
    \/ Extract
    \/ Finish

Spec == Init /\ [][Next]_vars

\* two overlapping requests
OtherIdle == [pc |-> "idle", type |-> "None"]

InitConc ==
    /\ ppc = "idle" /\ body = NoBody /\ rid = 0 /\ other = OtherIdle
    /\ url = <<>> /\ desc = 0 /\ url_type = "None"
    /\ fetched = NoFetch /\ profile = NoProfile /\ used = NoUse /\ sent = NoSent
    /\ work = NoWork /\ response = NoResponse
    /\ GenInit /\ FnInit

\* the requests of the first thread: a person and a company URL with a one
\* character description; the service answers or is rate limited
ConcBodies == {ObjectBody("str", u, "str", 1, 0) : u \in {UserUrl, CompanyUrl}}
ConcResponse == [output_text |-> FencedEmail, content |-> <<>>]
RateLimited == [kind |-> "RateLimitError", status |-> 429]

NextConc ==
    \/ \E b \in ConcBodies : Receive(b, {})
    \/ \E o \in OtherOutcomes : Fetch(o)
    \/ RunSetup("ok")
    \/ BuildRequest
    \/ Send
    \/ RespondOk(ConcResponse)
    \/ RespondError(RateLimited)
    \/ Wake
    \/ Extract
    \/ Finish
    \/ \E type \in {"user", "company"}, keep \in DeleteFailures : OtherReceive(type, keep)
    \/ \E o \in OtherOutcomes : OtherFetch(o)
    \/ \E answered \in BOOLEAN : OtherGenerate(answered)

SpecConc == InitConc /\ [][NextConc]_vars

-----------------------------------------------------------------------------
(* The pure functions applied to enumerated inputs *)

Seqs(S, n) == UNION {[1 .. k -> S] : k \in 0 .. n}

\* response texts: every token sequence of at most MaxLen tokens
ExtractToks == {FENCE, LABEL, WS, "{", "}", "email:Hi", "42"}
ExtractInputs == Seqs(ExtractToks, MaxLen)

InitExtract == ReqInit /\ GenInit /\ fn = "" /\ ret = JNone /\ arg \in ExtractInputs

ApplyExtract ==
    /\ fn = ""
    /\ arg \in ExtractInputs
    /\ fn' = "extract_json_from_response"
    /\ ret' = extract_json_from_response(arg)
    /\ UNCHANGED <<arg, reqVars, genVars>>

SpecExtract == InitExtract /\ [][ApplyExtract]_vars

\* URLs: well-formed and malformed combinations of the parts of a LinkedIn URL
UrlInputs ==
    {<<>>, <<WS>>}
    \cup {pad \o scheme \o sep \o sub \o host \o path \o ident \o tail \o pad :
            pad \in {<<>>, <<WS>>},
            scheme \in {<<"http">>, <<"http", "s">>, <<"ftp">>, <<>>},
            sep \in {<<"://">>, <<>>},
            sub \in {<<>>, <<"www.">>, <<"www.", "www.">>},
            host \in {<<"linkedin.com">>, <<"evil.com">>},
            path \in {<<"/in/">>, <<"/company/">>, <<"/jobs/">>},
            ident \in Seqs({"a", "-", "?"}, MaxIdLen),
            tail \in {<<>>, <<"/">>, <<"/", "/">>, <<"/", "a">>}}

InitUrl == ReqInit /\ GenInit /\ fn = "" /\ ret = JNone /\ arg \in UrlInputs

ApplyDetect ==
    /\ fn = ""
    /\ arg \in UrlInputs
    /\ fn' = "detect_url_type"
    /\ ret' = [type |-> detect_url_type(arg),
               profile_ok |-> validate_linkedin_profile_url(arg),
               company_ok |-> validate_linkedin_company_url(arg)]
    /\ UNCHANGED <<arg, reqVars, genVars>>

SpecUrl == InitUrl /\ [][ApplyDetect]_vars

\* records: every combination of the fields the validators read
NestedFields ==
    {[bi_fullname |-> a, bi_first_name |-> b, bi_headline |-> c, bi_name |-> d] :
        a \in {ABSENT, "Jane Doe"}, b \in {ABSENT, "Jane"},
        c \in {ABSENT, "Engineer"}, d \in {ABSENT, "Acme"}}

ValidatorRecords ==
    {NoRecord}
    \cup {[error |-> e, fullName |-> n, firstName |-> f, headline |-> h,
           basic_info |-> b, bi_fullname |-> bi.bi_fullname,
           bi_first_name |-> bi.bi_first_name, bi_headline |-> bi.bi_headline,
           bi_name |-> bi.bi_name, bi_industries |-> ABSENT, bi_description |-> ABSENT,
           size |-> z] :
            e \in {ABSENT, "", PLAN, PAID, NULL, NUM},
            n \in {ABSENT, "", "Jane Doe"},
            f \in {ABSENT, "Jane"},
            h \in {ABSENT, "", "Engineer"},
            b \in BOOLEAN,
            bi \in NestedFields,
            z \in {MIN_SIZE - 1, MIN_SIZE}}

\* without the key basic_info there are no nested fields
WellFormed(r) ==
    r.basic_info \/ (r.bi_fullname = ABSENT /\ r.bi_first_name = ABSENT
                     /\ r.bi_headline = ABSENT /\ r.bi_name = ABSENT)

ValidatorInputs ==
    {NonePayload, EmptyList}
    \cup {AsDict(r) : r \in {x \in ValidatorRecords : WellFormed(x)}}
    \cup {AsList(r) : r \in {x \in ValidatorRecords : WellFormed(x)}}

InitValidate == ReqInit /\ GenInit /\ fn = "" /\ ret = JNone /\ arg \in ValidatorInputs

ApplyValidateProfile ==
    /\ fn = ""
    /\ arg \in ValidatorInputs
    /\ fn' = "validate_profile_data"
    /\ ret' = validate_profile_data(arg)
    /\ UNCHANGED <<arg, reqVars, genVars>>

ApplyValidateCompany ==
    /\ fn = ""
    /\ arg \in ValidatorInputs
    /\ fn' = "validate_company_data"
    /\ ret' = validate_company_data(arg)
    /\ UNCHANGED <<arg, reqVars, genVars>>

SpecValidate == InitValidate /\ [][ApplyValidateProfile \/ ApplyValidateCompany]_vars

-----------------------------------------------------------------------------
(* Properties *)

Terminal == {"ResponseReceived", "Parsed", "ParseFailed", "RetriesExhausted", "Raised"}

\* C1 as stated: the Nth wait of with_backoff is 2^N: 2, 4, 8, 16, 32, 64.
C1_WaitsStartAtTwo ==
    \A n \in 1 .. Len(sleeps) : sleeps[n] = <<2, 4, 8, 16, 32, 64>>[n]

\* C1 amended: the wait after the Nth retryable failure (N = 1..6) is 2^(N-1):
\* the successive waits are 1, 2, 4, 8, 16, 32.
C1_WaitsStartAtOne ==
    /\ Len(sleeps) <= 6
    /\ \A n \in 1 .. Len(sleeps) : sleeps[n] = <<1, 2, 4, 8, 16, 32>>[n]

C1_Witness == Len(sleeps) = 6 /\ gpc = "RetryWait"

\* C2: with_backoff invokes the call at most 6 times; six retryable failures end
\* in RetriesExhausted (reported to the caller as a failure) with no further call;
\* a successful attempt ends the loop with that attempt's response and no call
\* follows it.
C2_AtMostSixCalls ==
    /\ [](calls <= 6)
    /\ [](gpc = "RetriesExhausted" =>
            calls = 6 /\ last.kind \notin {"ok", "none"} /\ ~response.success)
    /\ [](gpc \in {"ResponseReceived", "Parsed", "ParseFailed"} =>
            last.kind = "ok" /\ resp \in Responses)
    /\ [][(gpc = "RetryWait" /\ calls = 6) => (gpc' = "RetriesExhausted" /\ calls' = 6)]_vars
    /\ [][(gpc \in Terminal) => (calls' =< calls)]_vars

C2_Witness == gpc = "RetriesExhausted" /\ calls = 6

\* C3: an error that is neither a rate-limit signal nor a status error with code
\* 429, 500, 502, 503 or 504 propagates at once, on whichever attempt: the step
\* that receives it adds no wait and reports the failure, and no call follows.
C3_OtherErrorsPropagate ==
    /\ [][(gpc = "Sent" /\ gpc' # "Sent" /\ last'.kind # "ok"
             /\ last'.kind # "RateLimitError"
             /\ ~(last'.kind = "APIStatusError"
                    /\ last'.status \in {429, 500, 502, 503, 504}))
            => (gpc' = "Raised" /\ sleeps' = sleeps /\ calls' = calls
                  /\ ppc' = "idle" /\ ~response'.success)]_vars
    /\ [][(gpc = "Raised") => (calls' =< calls /\ Len(sleeps') =< Len(sleeps))]_vars

C3_Witness ==
    gpc = "Raised" /\ calls = 3 /\ Len(sleeps) = 2
        /\ last = [kind |-> "APIStatusError", status |-> 401]

C5_EmailOrMarker ==
    gpc \in {"Parsed", "ParseFailed"} =>
        \/ "email" \in result.keys /\ result.email # <<>>
        \/ "_parse_error" \in result.keys

\* C6: when the service call succeeded and extraction gave the parse-failure
\* marker, the caller gets a success whose email is the raw text, which is also
\* what the result file holds.
C6_ParseFailureAbsorbed ==
    (gpc = "ParseFailed" /\ ppc = "idle") =>
        /\ response.success
        /\ response.status = 200
        /\ response.email # <<>>
        /\ response.email =
             (IF resp.output_text # <<>> THEN resp.output_text
              ELSE IF Len(resp.content) = 1 THEN <<"Hello">>
              ELSE <<"Hello", WS, "Hello">>)
        /\ work.result.exists
        /\ work.result.data.keys = {"email"}
        /\ work.result.data.email = response.email

C6_Witness == gpc = "ParseFailed" /\ ppc = "idle" /\ response.email = <<"Hello">>

HasTok(s, t) == \E k \in 1 .. Len(s) : s[k] = t
Pads == {<<>>, <<WS>>}
Docs == {<<"{", "}">>, <<"{", "email:Hi", "}">>, <<"42">>}
ValueOf(doc) ==
    IF doc = <<"42">> THEN [type |-> "int", keys |-> {}, email |-> <<>>, raw |-> <<>>]
    ELSE IF HasTok(doc, "email:Hi")
    THEN [type |-> "dict", keys |-> {"email"}, email |-> <<"Hi">>, raw |-> <<>>]
    ELSE [type |-> "dict", keys |-> {}, email |-> <<>>, raw |-> <<>>]
Fenced(doc) ==
    {<<FENCE>> \o l \o w1 \o doc \o w2 \o <<FENCE>> :
        l \in {<<>>, <<LABEL>>}, w1 \in Pads, w2 \in Pads}

\* C7: a valid document in the first fenced block (labelled json or not) is
\* returned parsed, whatever follows the block; the same document unwrapped gives
\* the same structure; an object between prose is found by its braces; prose
\* gives the parse-failure marker with the text unchanged.
C7_ExtractionOrder ==
    fn = "extract_json_from_response" =>
        /\ \A doc \in Docs : \A a \in 0 .. Len(arg) : \A b \in a .. Len(arg) :
              (SubSeq(arg, a + 1, b) \in Fenced(doc) /\ ~HasTok(SubSeq(arg, 1, a), FENCE))
                  => ret = ValueOf(doc)
        /\ \A doc \in Docs : \A w1 \in Pads : \A w2 \in Pads :
              arg = w1 \o doc \o w2 => ret = ValueOf(doc)
        /\ \A doc \in Docs \ {<<"42">>} : \A a \in 0 .. Len(arg) : \A b \in a .. Len(arg) :
              (/\ SubSeq(arg, a + 1, b) = doc
               /\ \A k \in (1 .. a) \cup (b + 1 .. Len(arg)) : arg[k] \in {LABEL, WS, "42"})
                  => ret = ValueOf(doc)
        /\ (\A k \in 1 .. Len(arg) : arg[k] \in {LABEL, WS})
              => ret = [type |-> "dict", keys |-> {"_parse_error", "_raw"},
                        email |-> <<>>, raw |-> arg]
        /\ "_parse_error" \in ret.keys => ret.raw = arg

C7_Witness ==
    /\ fn = "extract_json_from_response"
    /\ arg = <<FENCE, "42", FENCE, "{", "}">>
    /\ ret.type = "int"

\* the URLs of the two shapes: http or https, optional www., the host, the path
\* segment, an identifier of word characters and hyphens, an optional slash
ShapeUrls(seg) ==
    {sch \o <<"://">> \o sub \o <<"linkedin.com", seg>> \o id \o t :
        sch \in {<<"http">>, <<"http", "s">>},
        sub \in {<<>>, <<"www.">>},
        id \in Seqs({"a", "-"}, MaxIdLen) \ {<<>>},
        t \in {<<>>, <<"/">>}}

\* s is a member of S with whitespace around it
TrimmedIn(s, S) ==
    \E a \in 0 .. Len(s) : \E b \in a .. Len(s) :
        /\ SubSeq(s, a + 1, b) \in S
        /\ \A k \in (1 .. a) \cup (b + 1 .. Len(s)) : s[k] = WS

\* C8: detect_url_type gives person exactly for the URLs of the person shape,
\* company exactly for those of the company shape and invalid for anything else;
\* the fetchers' own URL checks agree with it and never both accept.
C8_ClassifiesByShape ==
    fn = "detect_url_type" =>
        /\ ret.type \in {"user", "company", "None"}
        /\ ret.type = "user" <=> TrimmedIn(arg, ShapeUrls("/in/"))
        /\ ret.type = "company" <=> TrimmedIn(arg, ShapeUrls("/company/"))
        /\ ret.profile_ok <=> ret.type = "user"
        /\ ret.company_ok <=> ret.type = "company"
        /\ ~(ret.profile_ok /\ ret.company_ok)

C8_Witness ==
    /\ fn = "detect_url_type"
    /\ ret.type = "company"
    /\ arg = <<WS, "http", "://", "www.", "linkedin.com", "/company/", "a", "-", "/", WS>>

\* C9: the classification computed when the request arrives is the one every
\* later step uses: the fetcher (whose own URL check accepts the URL), the
\* validator and the prompt template are those of the URL's type.
C9_OneClassification ==
    LET type == detect_url_type(url)
        person == type = "user"
    IN /\ ppc # "idle" => url_type = type /\ type \in {"user", "company"}
       /\ used.fetcher # "none" =>
            /\ used.fetcher = (IF person THEN "fetch_linkedin_profile" ELSE "fetch_linkedin_company")
            /\ IF person THEN validate_linkedin_profile_url(url)
               ELSE validate_linkedin_company_url(url)
       /\ used.validator # "none" =>
            used.validator = (IF person THEN "validate_profile_data" ELSE "validate_company_data")
       /\ used.template # "none" =>
            used.template = (IF person THEN "prompt1.md" ELSE "prompt2.md")
       /\ sent # NoSent => sent.template = used.template
       /\ fetched.success => fetched.path = (IF person THEN "profile" ELSE "company")

C9_Witness ==
    /\ gpc = "Sent"
    /\ url_type = "company"
    /\ used = [fetcher |-> "fetch_linkedin_company", validator |-> "validate_company_data",
               template |-> "prompt2.md"]

\* C10 as stated: a record with an error field makes both validators return
\* is_valid = False, whatever the value of the field and the other fields.
C10_ErrorFieldRejected ==
    (fn \in {"validate_profile_data", "validate_company_data"}
        /\ arg.wrap \in {"dict", "list"} /\ arg.rec.error # ABSENT)
    => (~ret.raised /\ ~ret.valid)

\* the record has the canonical name field under neither shape
NameMissing(f, r) ==
    /\ r.fullName = ABSENT
    /\ IF f = "validate_profile_data" THEN r.bi_fullname = ABSENT ELSE r.bi_name = ABSENT

\* C11 as stated: a record without fullName and without basic_info.fullname
\* (person) or basic_info.name (company) makes the validator return
\* is_valid = False, whatever its other fields.
C11_MissingNameRejected ==
    (fn \in {"validate_profile_data", "validate_company_data"}
        /\ arg.wrap \in {"dict", "list"} /\ NameMissing(fn, arg.rec))
    => (~ret.raised /\ ~ret.valid)

\* C12 as stated: a request whose supplied description is empty or longer than
\* 200 characters is answered 400 "validation", and neither a fetcher nor the
\* service is invoked for it.
C12_BadDescriptionRejected ==
    (body.kind = "object" /\ body.desc_kind = "str"
        /\ (body.raw = 0 \/ body.raw > MAX_DESC))
    => /\ response = Failure("validation", 400)
       /\ ppc = "idle"
       /\ used = NoUse
       /\ sent = NoSent
       /\ calls = 0

\* C13 as stated: every fault raised while a request is handled becomes the
\* response 500 "unknown"; none leaves the handler.
C13_FaultsCaught ==
    /\ response # Unhandled
    /\ gpc \in {"Raised", "RetriesExhausted"} => response = Failure("unknown", 500)

\* C14 as stated: every failure response carries one of the four stage tags;
\* a request stopped by its inputs and data the validator did not accept are
\* answered 400 "validation"; fetch and generation failures are answered 500.
C14_StageAndStatus ==
    /\ (response.status # 0 /\ ~response.success)
         => response.step \in {"validation", "fetch", "generation", "unknown"}
    /\ (body # NoBody /\ ppc = "idle" /\ used = NoUse)
         => (response.step = "validation" /\ response.status = 400)
    /\ (used.validator # "none" /\ ~RunValidator(used.validator, fetched.data).valid)
         => (ppc = "idle" /\ response.step = "validation" /\ response.status = 400)
    /\ (used.fetcher # "none" /\ ~fetched.success /\ ppc = "idle")
         => (response.step = "fetch" /\ response.status = 500)
    /\ response.step \in {"fetch", "generation", "unknown"} => response.status = 500
    /\ gpc \in {"Raised", "RetriesExhausted"} => (~response.success /\ response.status = 500)

\* the source returned {"error": "requires paid plan"} to a company request
PaidPlanCase ==
    url_type = "company" /\ fetched.success /\ fetched.data = AsDict(PaidPlanOnly)

\* C15 as stated: for that record the validator's message is the
\* capability-limitation message, the response is 400 "validation" and the
\* generation step is not invoked.
C15_PaidPlanCapabilityMessage ==
    PaidPlanCase =>
        /\ validate_company_data(fetched.data) = Invalid(CompanyPlanMessage)
        /\ response = FailureMsg("validation", 400, CompanyPlanMessage)
        /\ ppc = "idle" /\ sent = NoSent /\ gpc = "Idle" /\ used.template = "none"

\* C15 amended: for that record the validator's message is the error text of the
\* source itself (the text does not contain "free Apify plan"), the response is
\* 400 "validation" with that text and the generation step is not invoked.
C15_PaidPlanSourceText ==
    PaidPlanCase =>
        /\ validate_company_data(fetched.data) = Invalid(PAID)
        /\ response = FailureMsg("validation", 400, PAID)
        /\ ppc = "idle" /\ sent = NoSent /\ gpc = "Idle" /\ used.template = "none"

C15_Witness == PaidPlanCase /\ ppc = "idle" /\ response.step = "validation"

\* C16 as stated: with two overlapping requests, what a request sends to the
\* service is the data its own fetch returned, and between its fetch and its
\* generation its entity file is the one it wrote.
C16_IndependentWorkingAreas ==
    /\ sent # NoSent => sent.data = fetched.data.rec
    /\ ppc = "generate" => work[fetched.path] = WrittenBy(FileOf(fetched.data), rid)

\* C17 as stated: every file of the working directory was written by the most
\* recent request that passed the input validation.
C17_OnlyLatestRequestData ==
    \A f \in Files : work[f].exists => work[f].req = rid

\* C18 as stated: a generation call moves Idle, RequestBuilt, Sent, then
\* RetryWait and Sent again any number of times, ResponseReceived, Parsed or
\* ParseFailed: every wait is followed by a send, RetriesExhausted follows a
\* failed send directly, and parsing follows a successful send.
C18_StateMachine ==
    [][gpc' # gpc =>
        /\ (gpc = "RetryWait" => gpc' = "Sent")
        /\ (gpc' = "RetriesExhausted" => gpc = "Sent")
        /\ (gpc' = "RequestBuilt" => gpc = "Idle")
        /\ (gpc' = "Sent" => gpc \in {"RequestBuilt", "RetryWait"})
        /\ (gpc' = "RetryWait" => gpc = "Sent")
        /\ (gpc' = "ResponseReceived" => (gpc = "Sent" /\ last' = Ok))
        /\ (gpc' \in {"Parsed", "ParseFailed"} => (gpc = "ResponseReceived" /\ last = Ok))]_vars

\* C19: a request rejected by the input validation changes no file of the
\* working directory, and get-result answers the same before and after it.
C19_RejectedRequestLeavesFiles ==
    [][(ppc = "idle" /\ ppc' = "idle" /\ response' = Failure("validation", 400))
        => (work' = work /\ get_result(work') = get_result(work))]_vars

C19_Witness ==
    /\ ppc = "idle"
    /\ response = Failure("validation", 400)
    /\ used = NoUse
    /\ body.raw > MAX_DESC
    /\ work.result.exists
    /\ work.profile.exists

====
